---- MODULE Spec2Model ----
(***************************************************************************)
(* Model of the ixchel command dispatcher (src/ixchel_command.py), its     *)
(* worker threads, the process-wide abort flag, the instrument lock and    *)
(* the single shared transport session.                                    *)
(*                                                                         *)
(* Threads of the program:                                                 *)
(*   - the asyncio event-loop thread ("ev"), which runs both the message   *)
(*     callback Ixchel.parse_message -> process -> IxchelCommand.parse     *)
(*     and the periodic connection check of loop() (src/ixchel.py); the    *)
(*     two never overlap with each other because parse has no await;       *)
(*   - one daemon thread per admitted command (threading.Thread in parse). *)
(* A blocking remote command is the place where the other threads run, so  *)
(* every remote command is a pair of steps (begin / end).                  *)
(*                                                                         *)
(* Specifications:                                                         *)
(*   Spec           the dispatcher, its threads, the abort flag, the lock  *)
(*   SpecInterface  TelescopeInterface and the catalog                     *)
(*                  telescope_interfaces (src/telescope_interface.py)      *)
(*   SpecTransport  SSH and Telescope (src/telescope.py)                   *)
(*   SpecPinpoint   the convergence loop IxchelCommand._pinpoint           *)
(*   SpecPinpointLive  the same, every remote command of a call returns    *)
(*   SpecSession    the session settings and the handlers that reset them  *)
(*   SpecMessage    the message callback (src/ixchel.py) in front of the   *)
(*                  dispatcher                                             *)
(* Each of the last six runs a part of the program on its own: the         *)
(* variables of the other parts keep their initial values.                 *)
(***************************************************************************)
EXTENDS Integers, Sequences, FiniteSets, TLC

\* ---------------------------------------------------------------- bounds
\* number of worker threads the dispatcher may spawn in one behaviour
MaxThreads == 3

\* ------------------------------------------------------- principals, lock
Users == {"u1", "u2"}
\* value None of the 'user' output slot of get_lock: nobody holds the lock
NoUser == "none"
\* the target name of a session that has not pointed anywhere
Unknown == "unknown"

\* ------------------------------------------------------------ input text
\* An operator text is the sequence of its whitespace-separated tokens.
\* The tokens are grouped by the character classes the patterns use.
Digits == {"1", "2"}
Decimals == {"1.5"}
Coords == {"12:30"}
Filters == {"r"}

INT == Digits                                 \* [0-9]+
NUM == Digits \cup Decimals                   \* [0-9\.]+
COORD == Digits \cup Decimals \cup Coords     \* [0-9\:\-\+\.]+
BIN == {"1", "2"}                             \* 1|2
ONOFF == {"on", "off"}                        \* on|off

Grp(accepts, optional) == [accepts |-> accepts, optional |-> optional]

\* The dispatch table, in declaration order (a subset of the entries of
\* init_commands that keeps the two overlapping \pinpoint patterns, one
\* entry without try/except, one multi-frame entry, the lock entries, the
\* \clear entry and the abort entry).  An entry without a "lock" key has lock = FALSE.
commands == <<
  [regex |-> [word |-> "\\plot", groups |-> <<Grp(INT, TRUE)>>],
   function |-> "plot", lock |-> FALSE],
  [regex |-> [word |-> "\\plot", groups |-> <<Grp(COORD, FALSE), Grp(COORD, FALSE)>>],
   function |-> "plot_ra_dec", lock |-> FALSE],
  [regex |-> [word |-> "\\track", groups |-> <<Grp(ONOFF, FALSE)>>],
   function |-> "track", lock |-> TRUE],
  [regex |-> [word |-> "\\pinpoint",
              groups |-> <<Grp(INT, TRUE), Grp(NUM, TRUE), Grp(Filters, TRUE)>>],
   function |-> "pinpoint", lock |-> TRUE],
  [regex |-> [word |-> "\\pinpoint",
              groups |-> <<Grp(COORD, FALSE), Grp(COORD, FALSE), Grp(NUM, TRUE),
                           Grp(Filters, TRUE)>>],
   function |-> "pinpoint_ra_dec", lock |-> TRUE],
  [regex |-> [word |-> "\\image",
              groups |-> <<Grp(NUM, FALSE), Grp(BIN, FALSE), Grp(Filters, FALSE),
                           Grp(INT, TRUE)>>],
   function |-> "get_image", lock |-> TRUE],
  [regex |-> [word |-> "\\lock", groups |-> <<>>],
   function |-> "set_lock", lock |-> FALSE],
  [regex |-> [word |-> "\\unlock", groups |-> <<>>],
   function |-> "unlock", lock |-> FALSE],
  [regex |-> [word |-> "\\clear", groups |-> <<>>],
   function |-> "clear_lock", lock |-> FALSE],
  [regex |-> [word |-> "\\share", groups |-> <<Grp(ONOFF, FALSE)>>],
   function |-> "share_lock", lock |-> TRUE],
  [regex |-> [word |-> "\\abort", groups |-> <<>>],
   function |-> "abort", lock |-> TRUE]
>>

\* the operator texts the model sends to parse
Texts == {
  <<"\\plot", "1.5", "1.5">>,
  <<"\\track", "on">>,
  <<"\\pinpoint", "1", "2">>,
  <<"\\pinpoint", "12:30", "1.5">>,
  <<"\\image", "1.5", "1", "r", "2">>,
  <<"\\lock">>,
  <<"\\unlock">>,
  <<"\\clear">>,
  <<"\\share", "on">>,
  <<"\\share", "off">>,
  <<"\\abort">>,
  <<"\\abort", "1">>
}

\* the optional groups of a pattern are tried greedily, then skipped
RECURSIVE MatchGroups(_, _)
MatchGroups(groups, args) ==
  IF groups = <<>>
  THEN args = <<>>
  ELSE \/ /\ args # <<>>
          /\ Head(args) \in Head(groups).accepts
          /\ MatchGroups(Tail(groups), Tail(args))
       \/ /\ Head(groups).optional
          /\ MatchGroups(Tail(groups), args)

\* re.search(cmd["regex"], text): every pattern is anchored with ^ and $
search(regex, text) ==
  /\ text # <<>>
  /\ Head(text) = regex.word
  /\ MatchGroups(regex.groups, Tail(text))

Matching(text) == {i \in DOMAIN commands : search(commands[i].regex, text)}

LastMatch(text) ==
  IF Matching(text) = {}
  THEN 0
  ELSE CHOOSE i \in Matching(text) : \A j \in Matching(text) : i >= j

\* index of the entry the for loop of parse acts on (0: no entry matches)
FirstMatch(text) ==
  IF Matching(text) = {}
  THEN 0
  ELSE CHOOSE i \in Matching(text) : \A j \in Matching(text) : i <= j

\* int(command.group(4)) of get_image, count = 1 when the group is absent
IntOf(tok) == IF tok = "2" THEN 2 ELSE 1
FrameCount(text) == IF Len(text) = 5 THEN IntOf(text[5]) ELSE 1

\* ------------------------------------------------------------- handlers
\* handlers whose body is one try/except that ends in handle_error
Simple == {"track", "pinpoint", "pinpoint_ra_dec", "clear_lock"}
\* handlers with no try/except at all
NoTry == {"plot", "plot_ra_dec"}
\* handlers that poll the abort flag at the start of each frame
Frames == {"get_image"}
\* handlers that begin with the is_locked() query
LockHandlers == {"set_lock", "unlock"}
\* the remote commands that are a get_lock query
LockQueries == {"is_locked", "is_locked_by", "locked_by"}

Tids == 1..MaxThreads
\* the event-loop thread, as a client of the session
EvThread == 0

NoWorker == [st |-> "none", fn |-> "", command |-> <<>>, user |-> "",
             pc |-> "", op |-> "", left |-> 0, out |-> ""]
\* a finished thread the registry no longer references
Collected == [NoWorker EXCEPT !.st = "gone"]

\* ------------------------------------------------- the command catalog
\* (src/telescope_interface.py)  A text is the sequence of its
\* space-separated tokens; a token is a plain word or a key=value pair.
W(v) == [k |-> "", v |-> v]
KV(k, v) == [k |-> k, v |-> v]

\* Python values: None, a str, an int; `unbound` is a local variable that
\* has not been assigned yet
None == [t |-> "NoneType", s |-> <<>>]
Str(s) == [t |-> "str", s |-> s]
PyInt(s) == [t |-> "int", s |-> s]
Unbound == [t |-> "unbound", s |-> <<>>]

\* the output patterns of these entries:
\*   r'(?<=key=).*?(?= )'     the text after key= up to the next space
\*   r'(?<=key=).*?$'         the text after key= up to the end of the line
UpToSpace(key) == [re |-> "upto_space", key |-> key]
ToEol(key) == [re |-> "to_eol", key |-> key]

Output(name, regex, optional, type) ==
  [name |-> name, regex |-> regex, optional |-> optional, type |-> type]
\* an input slot of the catalog has no 'default' key: get_input_default
\* gives None for it
Input(name) == [name |-> name, default |-> None]

\* a command template: literal text and {placeholders}
Lit(s) == [ph |-> FALSE, s |-> s]
Ph(name) == [ph |-> TRUE, s |-> name]

\* the five output slots of 'tx lock'; userOptional is the 'optional' key
\* of the user slot (get_lock: True, set_lock: False)
LockOutputs(userOptional) ==
  << Output("user", UpToSpace("user"), userOptional, "str"),
     Output("email", UpToSpace("email"), TRUE, "str"),
     Output("phone", UpToSpace("phone"), TRUE, "str"),
     Output("comment", UpToSpace("comment"), TRUE, "str"),
     Output("timestamp", ToEol("timestamp"), TRUE, "str") >>

\* telescope_interfaces, the part no method writes.  An output without an
\* 'optional' key is required (is_output_optional: .get('optional', False))
catalog ==
  [ get_filter |->
      [ command |-> << Lit("tx filter") >>,
        inputs |-> << >>,
        outputs |-> << Output("num", UpToSpace("num"), FALSE, "int"),
                       Output("name", ToEol("name"), FALSE, "str") >> ],
    get_lock |->
      [ command |-> << Lit("tx lock") >>,
        inputs |-> << >>,
        outputs |-> LockOutputs(TRUE) ],
    set_lock |->
      [ command |-> << Lit("tx lock user="), Ph("user") >>,
        inputs |-> << Input("user") >>,
        outputs |-> LockOutputs(FALSE) ] ]

Names == DOMAIN catalog
Keys(slots) == {slots[i].name : i \in 1..Len(slots)}
SlotOf(slots, name) == CHOOSE i \in 1..Len(slots) : slots[i].name = name

\* the 'value' keys of the catalog as the module is imported: all None
Startup ==
  [c \in Names |->
     [inputs |-> [k \in Keys(catalog[c].inputs) |-> None],
      outputs |-> [k \in Keys(catalog[c].outputs) |-> None]]]

\* ---- responses
\* longest response, in lines (in characters when the response is a str)
MaxLines == 2

Lines ==
  { << W("done"), W("lock"), KV("user", "u1"), KV("email", "e"), KV("timestamp", "t") >>,
    << W("done"), W("lock"), KV("email", "e"), KV("timestamp", "t") >>,
    << W("done"), W("filter"), KV("num", "3"), KV("name", "V") >>,
    << W("done"), W("filter"), KV("num", "abc"), KV("name", "V") >> }
\* the one-character strings `for line in result` yields when the response
\* is a str (Telescope.get_lock passes results['response'])
Chars == { << W("d") >> }

SeqUpTo(S, n) == UNION {[1..m -> S] : m \in 0..n}
Responses ==
  [type : {"list"}, lines : SeqUpTo(Lines, MaxLines)]
    \cup [type : {"str"}, lines : SeqUpTo(Chars, MaxLines)]

\* ---- re.search(regex, line): the match (group(0) as a str) or None
FirstKey(line, key, last) ==
  LET at == {i \in 1..last : line[i].k = key} IN
  IF at = {} THEN 0 ELSE CHOOSE i \in at : \A j \in at : i <= j

re_search(regex, line) ==
  IF regex.re = "upto_space"
  THEN LET i == FirstKey(line, regex.key, Len(line) - 1) IN
       IF i = 0 THEN None ELSE Str(<< W(line[i].v) >>)
  ELSE LET i == FirstKey(line, regex.key, Len(line)) IN
       IF i = 0 THEN None
       ELSE Str(<< W(line[i].v) >> \o SubSeq(line, i + 1, Len(line)))

\* the inner loop of assign_outputs, "for line in result: match = ...; if
\* match: break": the value of the local `match` after it
RECURSIVE for_line(_, _, _, _)
for_line(regex, lines, i, match) ==
  IF i > Len(lines) THEN match
  ELSE LET m == re_search(regex, lines[i]) IN
       IF m # None THEN m ELSE for_line(regex, lines, i + 1, m)

\* what the branch of a missing required output raises: result.strip() is
\* evaluated first (a list has no strip); for a str the format string of
\* the raise has one %s for two arguments
MissingRequired(result) ==
  IF result.type = "list" THEN "AttributeError" ELSE "TypeError"

Returned(outputs) == [outputs |-> outputs, exc |-> ""]
Raised(outputs, exc) == [outputs |-> outputs, exc |-> exc]

\* the outer loop of assign_outputs from the i-th output key on: the output
\* values it leaves and the exception it ends in ("" when it returns)
RECURSIVE for_key(_, _, _, _, _)
for_key(slots, outputs, result, i, match) ==
  IF i > Len(slots) THEN Returned(outputs)
  ELSE LET m == for_line(slots[i].regex, result.lines, 1, match) IN
       IF m = Unbound THEN Raised(outputs, "UnboundLocalError")
       ELSE IF m # None
       THEN for_key(slots, [outputs EXCEPT ![slots[i].name] = m], result, i + 1, m)
       ELSE IF slots[i].optional
       THEN for_key(slots, outputs, result, i + 1, m)
       ELSE Raised(outputs, MissingRequired(result))

\* ---- conversions
Numerals == {"3"}
\* type(value) of get_output_value: str() of a str is the str; int() of a
\* str raises ValueError unless the text is a numeral
Converts(type, value) ==
  type = "str" \/ (Len(value.s) = 1 /\ value.s[1].k = "" /\ value.s[1].v \in Numerals)
Convert(type, value) == IF type = "int" THEN PyInt(value.s) ELSE value

\* get_output_value(name): None for a value of None; the converted value;
\* None again when the conversion raises (the except branch only logs) and
\* when the interface has no such output
get_output_value(slots, outputs, name) ==
  IF name \in Keys(slots)
  THEN IF outputs[name] = None THEN outputs[name]
       ELSE IF Converts(slots[SlotOf(slots, name)].type, outputs[name])
       THEN Convert(slots[SlotOf(slots, name)].type, outputs[name])
       ELSE None
  ELSE None

\* str.format of one value: str(None) is the text None
format(value) == IF value = None THEN "None" ELSE value.s[1].v

\* assign_inputs: every input key is looked up with get_input_value (the
\* value, None when nothing was bound) and the template is formatted; a
\* placeholder that names no input key is a KeyError
assign_inputs(command, inputs) ==
  IF \E i \in 1..Len(command) : command[i].ph /\ command[i].s \notin DOMAIN inputs
  THEN [exc |-> "KeyError", text |-> << >>]
  ELSE [exc |-> "",
        text |-> [i \in 1..Len(command) |->
                    IF command[i].ph THEN format(inputs[command[i].s])
                    ELSE command[i].s]]

\* ---- the object and the record of a call
NoInterface == [command |-> "", parsed |-> FALSE]
NoResult == [type |-> "list", lines |-> << >>]
Call(op, name, result, exc, value, text) ==
  [op |-> op, name |-> name, result |-> result, exc |-> exc,
   value |-> value, text |-> text]
NoCall == Call("", "", NoResult, "", None, << >>)

\* ------------------------------------------------------- the transport
\* (src/telescope.py)
NoTelescope == [built |-> FALSE, use_ssh |-> FALSE]
\* Telescope.ssh: None, or an SSH object whose paramiko client has an
\* active transport or not
NoSSH == [exists |-> FALSE, active |-> FALSE]
Commands == {"tx lock", "tx where"}
\* which of stdout and stderr of a command has lines
Streams == {"stdout", "stderr", "both", "nothing"}
\* the command as sent: 'timeout %f ' % timeout + command when timeout > 0
Sent(command, timeout) ==
  IF timeout > 0 THEN << "timeout", command >> ELSE << command >>
\* a transport call, the exception it raised ("" when it returned) and
\* what it returned: True, or the 'response' of the result dict (None
\* when the dict has no 'response' key) and the stream that had lines
Ret(op, sent, exc, value, stream) ==
  [op |-> op, sent |-> sent, exc |-> exc, value |-> value, stream |-> stream]
NoRet == Ret("", << >>, "", "", "")
Raises(op, sent, exc) == Ret(op, sent, exc, "", "")

\* ------------------------------------------------ the convergence loop
\* (IxchelCommand._pinpoint)  Angles are in hundredths of a degree.
max_ra_offset == 5000
max_dec_offset == 5000
min_ra_offset == 5
min_dec_offset == 5
max_tries == 5
\* "if ra_offset > 350: ra_offset -= 360.0"
Seam == 35000
FullTurn == 36000

\* config telescope/filters: the filters of the wheel, the one in place first
StartFilter == "clear"
WheelFilters == Filters \cup {StartFilter}
\* right ascensions and declinations of targets and of solved fields
RaTargets == {20, 1000, 35020, 35950}
DecTargets == {-50, 2000}
RaImages == {20, 1005, 1100, 35950}
\* self.skyObjects: what the last \find has listed
skyObjects == {[ra |-> 1000, dec |-> 2000]}
DecImages == {-50, 2004, 8000}

\* set_target(): "unknown"; the handlers that call _pinpoint and the target
\* each one names after a success
PinpointHandlers == {"pinpoint", "pinpoint_ra_dec"}
TargetOf(fn) == IF fn = "pinpoint" THEN "skyobject_name" ELSE "ra_dec"
\* the handler that runs and the last message it sent about the outcome
Handler(fn, said) == [fn |-> fn, said |-> said]
NoHandler == Handler("", "")
Running(fn) == Handler(fn, "pinpointing")

\* the local telescope_interface of _pinpoint: the catalog name it was
\* instantiated with and the input values set on it
Local(name, inputs) == [name |-> name, inputs |-> inputs]
NoLocal == Local("", <<>>)

NotRunning ==
  [pc |-> "idle", hdr |-> FALSE, filter |-> StartFilter,
   original_filter |-> StartFilter, ra_target |-> 0, dec_target |-> 0,
   iteration |-> 0, ra_image |-> 0, dec_image |-> 0,
   ra_offset |-> 0, dec_offset |-> 0,
   images |-> 0, solves |-> 0, offsets |-> 0, result |-> "none",
   telescope_interface |-> NoLocal]

abs(x) == IF x < 0 THEN -x ELSE x

VARIABLE threads      \* IxchelCommand.threads: the registry of CommandThread
VARIABLE workers      \* the threading.Thread objects and where their handler is
VARIABLE nspawned     \* number of threads started so far
VARIABLE doAbort      \* the module global doAbort
VARIABLE share        \* IxchelCommand.share
VARIABLE preview      \* IxchelCommand.preview
VARIABLE lockOwner    \* the lock held on the remote instrument ("tx lock")
VARIABLE getLockUser  \* telescope_interfaces['get_lock']['outputs']['user']['value']
VARIABLE session      \* threads inside a remote command of the one SSH session
VARIABLE ev           \* the event-loop thread: idle, inside parse, or in loop()
VARIABLE reply        \* the message parse sent for the request being processed


\* the command interface (src/telescope_interface.py)
VARIABLE telescope_interfaces  \* the 'value' keys of the catalog dict
VARIABLE interface    \* the TelescopeInterface object a caller holds
VARIABLE call         \* the last method call on it and how it ended

\* the transport (src/telescope.py)
VARIABLE telescope    \* the Telescope object: constructed, use_ssh
VARIABLE ssh          \* Telescope.ssh, the SSH object and its paramiko client
VARIABLE network      \* whether the remote server answers
VARIABLE ret          \* the last transport call and how it ended

\* the convergence loop (IxchelCommand._pinpoint)
VARIABLE pin          \* the locals of _pinpoint and where it is
VARIABLE hdr          \* IxchelCommand.hdr
VARIABLE wheel        \* the filter in the light path of the instrument
VARIABLE target       \* IxchelCommand.target
VARIABLE handler      \* the pinpoint handler that runs and what it reported

dispatcherVars == <<threads, workers, nspawned, doAbort, share, preview,
                    lockOwner, getLockUser, session, ev, reply>>
interfaceVars == <<telescope_interfaces, interface, call>>
transportVars == <<telescope, ssh, network, ret>>
pinpointVars == <<pin, hdr, wheel, target, handler>>
\* what the steps of parse and of the handlers that are not lock handlers
\* leave alone
libraryVars == <<preview, interfaceVars, transportVars, pinpointVars>>
vars == <<dispatcherVars, interfaceVars, transportVars, pinpointVars>>

Idle == [pc |-> "idle", text |-> <<>>, user |-> "", cmd |-> 0, owned |-> FALSE]
NoReply == [kind |-> "none", arg |-> <<>>]
Msg(kind, arg) == [kind |-> kind, arg |-> arg]

is_alive(t) == workers[t].st = "alive"
Alive == {t \in Tids : is_alive(t)}

CommandThread(thread, command, user) ==
  [thread |-> thread, command |-> command, user |-> user]

Init ==
  /\ threads = <<>>
  /\ workers = [t \in Tids |-> NoWorker]
  /\ nspawned = 0
  /\ doAbort = FALSE
  /\ share = FALSE
  /\ preview = TRUE
  /\ lockOwner \in Users \cup {NoUser}
  /\ getLockUser = NoUser
  /\ session = {}
  /\ ev = Idle
  /\ reply = NoReply
  /\ telescope_interfaces = Startup
  /\ interface = NoInterface
  /\ call = NoCall
  /\ telescope = NoTelescope
  /\ ssh = NoSSH
  /\ network = TRUE
  /\ ret = NoRet
  /\ pin = NotRunning
  /\ hdr = FALSE
  /\ wheel = StartFilter
  /\ target = Unknown
  /\ handler = NoHandler

\* ------------------------------------------------------- lock queries
\* One get_lock round trip.  TelescopeInterface("get_lock") hands out the
\* catalog entry itself (assign returns the dict of telescope_interfaces,
\* no copy), so the 'user' slot is one value shared by every thread.
\* TelescopeInterface.__init__ -> set_defaults: the slot is reset to None
set_defaults == NoUser

\* assign_outputs on the response: the 'user' slot is optional, a response
\* without user= (nobody holds the lock, or an empty response after a
\* transport failure) leaves the slot as it is
assign_outputs(slot, ok) == IF ok /\ lockOwner # NoUser THEN lockOwner ELSE slot

is_locked_by_anyone(ok, slot, user) == ok /\ slot # NoUser

\* is_locked_by(user): _user == user["id"]; an exception inside the
\* try (the query failed) is logged and the answer is False
is_locked_by(ok, slot, user) == ok /\ slot = user

is_lockedFailOpen(ok, slot) == ok /\ slot # NoUser

\* is_locked(): _user is not None; an exception inside the try gives True
is_locked(ok, slot) == ~ok \/ slot # NoUser

\* ghost: the principal of the request in the lock check has owned the lock
\* at some instant since the check began
NoteOwner(e, owner) ==
  IF e.pc = "lockquery" /\ owner = e.user THEN [e EXCEPT !.owned = TRUE] ELSE e

\* ------------------------------------------------------------- parse
\* parse, lines 126-145: strip, first matching entry, user lookup; an entry
\* that requires the lock starts the get_lock query of is_locked_by.
\* No match: the "does not recognize your command" message (lines 187-189).
ParseStart(text, user) ==
  /\ ev.pc = "idle"
  /\ nspawned < MaxThreads
  /\ LET idx == FirstMatch(text) IN
     IF idx = 0
     THEN /\ reply' = Msg("unrecognized", text)
          /\ UNCHANGED <<ev, session, getLockUser>>
     ELSE IF commands[idx].lock
     THEN /\ ev' = [pc |-> "lockquery", text |-> text, user |-> user,
                    cmd |-> idx, owned |-> (lockOwner = user)]
          /\ getLockUser' = set_defaults
          /\ session' = session \cup {EvThread}
          /\ reply' = NoReply
     ELSE /\ ev' = [pc |-> "prune", text |-> text, user |-> user,
                    cmd |-> idx, owned |-> FALSE]
          /\ reply' = NoReply
          /\ UNCHANGED <<session, getLockUser>>
  /\ UNCHANGED <<threads, workers, nspawned, doAbort, share, lockOwner>>
  /\ UNCHANGED libraryVars

\* parse, lines 136-145: is_locked_by returns, then "not self.share"
ParseLockCheckButAbort(ok) ==
  /\ ev.pc = "lockquery"
  /\ session' = session \ {EvThread}
  /\ getLockUser' = assign_outputs(getLockUser, ok)
  /\ IF ~is_locked_by(ok, getLockUser', ev.user) /\ ~share
        /\ commands[ev.cmd].function # "abort"
     THEN /\ reply' = Msg("lockfirst", <<>>)
          /\ ev' = Idle
     ELSE /\ ev' = [ev EXCEPT !.pc = "prune"]
          /\ UNCHANGED reply
  /\ UNCHANGED <<threads, workers, nspawned, doAbort, share, lockOwner>>
  /\ UNCHANGED libraryVars

ParseLockCheck(ok) ==
  /\ ev.pc = "lockquery"
  /\ session' = session \ {EvThread}
  /\ getLockUser' = assign_outputs(getLockUser, ok)
  /\ IF ~is_locked_by(ok, getLockUser', ev.user) /\ ~share
     THEN /\ reply' = Msg("lockfirst", <<>>)
          /\ ev' = Idle
     ELSE /\ ev' = [ev EXCEPT !.pc = "prune"]
          /\ UNCHANGED reply
  /\ UNCHANGED <<threads, workers, nspawned, doAbort, share, lockOwner>>
  /\ UNCHANGED libraryVars

\* parse, line 147: self.threads = [t for t in self.threads if t.thread.is_alive()]
\* (a thread object no longer referenced by the registry is collected)
PrunedNever == threads

Pruned == SelectSeq(threads, LAMBDA t : is_alive(t.thread))

ParsePrune ==
  /\ ev.pc = "prune"
  /\ threads' = Pruned
  /\ workers' = [t \in Tids |->
        IF workers[t].st = "dead" THEN Collected ELSE workers[t]]
  /\ ev' = [ev EXCEPT !.pc = "decide"]
  /\ UNCHANGED <<nspawned, doAbort, share, lockOwner, getLockUser, session, reply>>
  /\ UNCHANGED libraryVars

\* the first thing a handler does: a remote command ("ready"), the abort
\* poll of a frame loop ("check"), or work that uses no remote command
FirstPc(fn) ==
  IF fn \in Simple \cup LockHandlers THEN "ready"
  ELSE IF fn \in Frames THEN "check"
  ELSE "local"

FirstOp(fn) ==
  IF fn \in Simple THEN fn
  ELSE IF fn \in LockHandlers THEN "is_locked"
  ELSE ""

\* the thread parse starts for an admitted handler (lines 170-182)
NewWorker(fn, text, user) ==
  [st |-> "alive", fn |-> fn, command |-> text, user |-> user,
   pc |-> FirstPc(fn), op |-> FirstOp(fn), left |-> FrameCount(text), out |-> ""]

\* line 149: cmd["function"] == self.abort
IsAbortNever(fn) == FALSE

IsAbort(fn) == fn = "abort"

\* lines 151-159: the value the abort request gives the flag,
\* setDoAbort(False) on an empty registry, setDoAbort(True) otherwise
AbortSignalKept(registry) == doAbort \/ Len(registry) > 0

AbortSignal(registry) == ~(Len(registry) <= 0)

\* lines 157, 166: self.threads[0].command
InFlightRequested(registry) == ev.text

InFlightCommand(registry) == registry[1].command

\* lines 161-163: not an abort, but there is another command running
BusyNever(registry) == FALSE

Busy(registry) == Len(registry) > 0

\* parse, lines 149-182: the abort protocol, the busy check, the spawn
ParseDecide ==
  /\ ev.pc = "decide"
  /\ LET fn == commands[ev.cmd].function
         tid == nspawned + 1
     IN IF IsAbort(fn)
        THEN /\ reply' = IF Len(threads) <= 0
                         THEN Msg("noabort", <<>>)
                         ELSE Msg("aborting", InFlightCommand(threads))
             /\ doAbort' = AbortSignal(threads)
             /\ UNCHANGED <<threads, workers, nspawned>>
        ELSE IF Busy(threads)
        THEN /\ reply' = Msg("wait", InFlightCommand(threads))
             /\ UNCHANGED <<threads, workers, nspawned, doAbort>>
        ELSE /\ threads' = Append(threads, CommandThread(tid, ev.text, ev.user))
             /\ workers' = [workers EXCEPT ![tid] = NewWorker(fn, ev.text, ev.user)]
             /\ nspawned' = tid
             /\ UNCHANGED <<reply, doAbort>>
  /\ ev' = Idle
  /\ UNCHANGED <<share, lockOwner, getLockUser, session>>
  /\ UNCHANGED libraryVars

\* ------------------------------------------------------------ workers
\* the handler returns (or an exception ends the thread): is_alive() is False
Finish(w, out) == [w EXCEPT !.st = "dead", !.pc = "done", !.op = "", !.out = out]

\* handle_error: the "Error. Command (...) failed." message
handle_error(w) == Finish(w, "failed")

\* plot / plot_ra_dec (lines 585-619): no try/except; an exception of the
\* plot call leaves the thread without any message to the channel
WorkerLocal(t, ok) ==
  /\ is_alive(t)
  /\ workers[t].pc = "local"
  /\ workers[t].fn \in NoTry
  /\ workers' = [workers EXCEPT ![t] = Finish(@, IF ok THEN "ok" ELSE "escaped")]
  /\ UNCHANGED <<threads, nspawned, doAbort, share, lockOwner, getLockUser,
                 session, ev, reply>>
  /\ UNCHANGED libraryVars

\* share_lock (lines 1026-1035)
WorkerShare(t) ==
  /\ is_alive(t)
  /\ workers[t].pc = "local"
  /\ workers[t].fn = "share_lock"
  /\ share' = (workers[t].command[2] = "on")
  /\ workers' = [workers EXCEPT ![t] = Finish(@, "ok")]
  /\ UNCHANGED <<threads, nspawned, doAbort, lockOwner, getLockUser,
                 session, ev, reply>>
  /\ UNCHANGED libraryVars

\* getDoAbort: the flag read under the mutex
getDoAbortUnset == FALSE

getDoAbort == doAbort

\* get_image, lines 1258-1260: the abort poll at the start of each frame
WorkerCheckAbort(t) ==
  /\ is_alive(t)
  /\ workers[t].pc = "check"
  /\ workers' = [workers EXCEPT ![t] =
        IF getDoAbort
        THEN [@ EXCEPT !.pc = "aborting"]
        ELSE [@ EXCEPT !.pc = "ready", !.op = "capture"]]
  /\ UNCHANGED <<threads, nspawned, doAbort, share, lockOwner, getLockUser,
                 session, ev, reply>>
  /\ UNCHANGED libraryVars

\* get_image, lines 1267-1269: "Image sequence aborted.", setDoAbort(False), return
WorkerHonorAbort(t) ==
  /\ is_alive(t)
  /\ workers[t].pc = "aborting"
  /\ doAbort' = FALSE
  /\ workers' = [workers EXCEPT ![t] = Finish(@, "aborted")]
  /\ UNCHANGED <<threads, nspawned, share, lockOwner, getLockUser,
                 session, ev, reply>>
  /\ UNCHANGED libraryVars

\* the handler sends its next remote command on the shared session; a
\* get_lock query first builds TelescopeInterface("get_lock") (set_defaults)
WorkerRemoteBegin(t) ==
  /\ is_alive(t)
  /\ workers[t].pc = "ready"
  /\ workers' = [workers EXCEPT ![t].pc = "remote"]
  /\ session' = session \cup {t}
  /\ getLockUser' = IF workers[t].op \in LockQueries THEN set_defaults ELSE getLockUser
  /\ UNCHANGED <<threads, nspawned, doAbort, share, lockOwner, ev, reply>>
  /\ UNCHANGED libraryVars

\* what the handler does once the remote command op has returned
AfterRemote(w, ok, slot) ==
  CASE w.op = "is_locked" /\ w.fn = "set_lock" ->
         \* set_lock, lines 1488-1492
         IF is_locked(ok, slot)
         THEN [w EXCEPT !.pc = "ready", !.op = "locked_by"]
         ELSE [w EXCEPT !.pc = "ready", !.op = "set_lock"]
    [] w.op = "is_locked" /\ w.fn = "unlock" ->
         \* unlock, lines 1513-1515
         IF is_locked(ok, slot)
         THEN [w EXCEPT !.pc = "ready", !.op = "is_locked_by"]
         ELSE Finish(w, "rejected")
    [] w.op = "is_locked_by" ->
         \* unlock, lines 1516-1518
         IF is_locked_by(ok, slot, w.user)
         THEN [w EXCEPT !.pc = "ready", !.op = "unlock"]
         ELSE [w EXCEPT !.pc = "ready", !.op = "locked_by"]
    [] w.op = "locked_by" -> Finish(w, "rejected")
    [] w.op = "capture" ->
         \* get_image, lines 1287-1298
         IF ~ok THEN handle_error(w)
         ELSE IF w.left > 1 THEN [w EXCEPT !.pc = "check", !.op = "", !.left = @ - 1]
         ELSE Finish(w, "ok")
    [] OTHER -> IF ok THEN Finish(w, "ok") ELSE handle_error(w)

\* the lock on the instrument after the remote command op
LockAfter(w, ok) ==
  IF ok /\ w.op = "set_lock" THEN w.user
  ELSE IF ok /\ w.op = "unlock" THEN NoUser
  \* clear_lock (lines 1565-1574): 'tx lock clear', for whoever asks
  ELSE IF ok /\ w.op = "clear_lock" THEN NoUser
  ELSE lockOwner

\* lines 1508, 1526: set_lock and unlock call resetSession at the end of
\* their try, after the remote command has returned
ResetsNever(w, ok) == FALSE

Resets(w, ok) == ok /\ w.op \in {"set_lock", "unlock"}

\* resetSession (lines 109-113): self.share = False
resetSession(w, ok) == IF Resets(w, ok) THEN FALSE ELSE share

\* the remote command of a handler returns (ok) or fails (an exception in
\* the executor or in assign_outputs, raised into the handler's try)
WorkerRemoteEnd(t, ok) ==
  /\ is_alive(t)
  /\ workers[t].pc = "remote"
  /\ session' = session \ {t}
  /\ getLockUser' = IF workers[t].op \in LockQueries
                    THEN assign_outputs(getLockUser, ok) ELSE getLockUser
  /\ workers' = [workers EXCEPT ![t] = AfterRemote(@, ok, getLockUser')]
  /\ lockOwner' = LockAfter(workers[t], ok)
  /\ share' = resetSession(workers[t], ok)
  /\ hdr' = IF Resets(workers[t], ok) THEN FALSE ELSE hdr
  /\ target' = IF Resets(workers[t], ok) THEN Unknown ELSE target
  /\ preview' = IF Resets(workers[t], ok) THEN TRUE ELSE preview
  /\ ev' = NoteOwner(ev, lockOwner')
  /\ UNCHANGED <<threads, nspawned, doAbort, reply>>
  /\ UNCHANGED <<interfaceVars, transportVars, pin, wheel, handler>>

\* -------------------------------------------------- connection check
\* loop() of src/ixchel.py: every 10 s the event loop probes the session
\* (ssh.is_connected re-issues the probe command)
ConnCheckBegin ==
  /\ ev.pc = "idle"
  /\ ev' = [Idle EXCEPT !.pc = "conncheck"]
  /\ session' = session \cup {EvThread}
  /\ UNCHANGED <<threads, workers, nspawned, doAbort, share, lockOwner,
                 getLockUser, reply>>
  /\ UNCHANGED libraryVars

ConnCheckEnd ==
  /\ ev.pc = "conncheck"
  /\ ev' = Idle
  /\ session' = session \ {EvThread}
  /\ UNCHANGED <<threads, workers, nspawned, doAbort, share, lockOwner,
                 getLockUser, reply>>
  /\ UNCHANGED libraryVars

Next ==
  \/ \E text \in Texts, user \in Users : ParseStart(text, user)
  \/ \E ok \in BOOLEAN : ParseLockCheck(ok)
  \/ ParsePrune
  \/ ParseDecide
  \/ \E t \in Tids, ok \in BOOLEAN : WorkerLocal(t, ok)
  \/ \E t \in Tids : WorkerShare(t)
  \/ \E t \in Tids : WorkerCheckAbort(t)
  \/ \E t \in Tids : WorkerHonorAbort(t)
  \/ \E t \in Tids : WorkerRemoteBegin(t)
  \/ \E t \in Tids, ok \in BOOLEAN : WorkerRemoteEnd(t, ok)
  \/ ConnCheckBegin
  \/ ConnCheckEnd

Spec == Init /\ [][Next]_vars

\* the library below the dispatcher is exercised on its own, with the
\* instrument unlocked and the dispatcher at rest
InitLibrary == Init /\ lockOwner = NoUser

\* ================================================= the command interface
\* TelescopeInterface callers: construct the object, bind inputs, render,
\* parse a response, read outputs.  self.command is the catalog entry
\* itself (assign returns the value of telescope_interfaces, no copy), so
\* every write of a 'value' key is a write of telescope_interfaces.
Entry == telescope_interfaces[interface.command]
Slots == catalog[interface.command]

\* set_defaults: every output gets get_output_default (no output has a
\* 'default' key: None), every input gets get_input_default
Defaults(name) ==
  [inputs |-> [k \in Keys(catalog[name].inputs) |->
                 catalog[name].inputs[SlotOf(catalog[name].inputs, k)].default],
   outputs |-> [k \in Keys(catalog[name].outputs) |-> None]]

\* TelescopeInterface(name): assign raises ValueError for a name that is
\* not in the catalog, then set_defaults
InstantiateAny(name) ==
  /\ call' = Call("__init__", name, NoResult, "", None, << >>)
  /\ IF name \in Names
     THEN /\ telescope_interfaces' =
                [telescope_interfaces EXCEPT ![name] = Defaults(name)]
          /\ interface' = [command |-> name, parsed |-> FALSE]
     ELSE /\ interface' = [command |-> "get_lock", parsed |-> FALSE]
          /\ UNCHANGED telescope_interfaces
  /\ UNCHANGED <<dispatcherVars, transportVars, pinpointVars>>

Instantiate(name) ==
  /\ IF name \in Names
     THEN /\ telescope_interfaces' =
                [telescope_interfaces EXCEPT ![name] = Defaults(name)]
          /\ interface' = [command |-> name, parsed |-> FALSE]
          /\ call' = Call("__init__", name, NoResult, "", None, << >>)
     ELSE /\ call' = Call("__init__", name, NoResult, "ValueError", None, << >>)
          /\ UNCHANGED <<telescope_interfaces, interface>>
  /\ UNCHANGED <<dispatcherVars, transportVars, pinpointVars>>

\* set_input_value(name, value)
SetInputValue(name, value) ==
  /\ interface # NoInterface
  /\ IF name \in Keys(Slots.inputs)
     THEN /\ telescope_interfaces' =
                [telescope_interfaces EXCEPT
                   ![interface.command].inputs[name] = value]
          /\ call' = Call("set_input_value", name, NoResult, "", None, << >>)
     ELSE /\ call' = Call("set_input_value", name, NoResult, "ValueError", None, << >>)
          /\ UNCHANGED telescope_interfaces
  /\ UNCHANGED <<interface, dispatcherVars, transportVars, pinpointVars>>

\* assign_inputs(): the command string
AssignInputs ==
  /\ interface # NoInterface
  /\ LET r == assign_inputs(Slots.command, Entry.inputs) IN
     call' = Call("assign_inputs", interface.command, NoResult, r.exc, None, r.text)
  /\ UNCHANGED <<telescope_interfaces, interface>>
  /\ UNCHANGED <<dispatcherVars, transportVars, pinpointVars>>

\* assign_outputs(result)
AssignOutputs(result) ==
  /\ interface # NoInterface
  /\ LET r == for_key(Slots.outputs, Entry.outputs, result, 1, Unbound) IN
     /\ telescope_interfaces' =
           [telescope_interfaces EXCEPT ![interface.command].outputs = r.outputs]
     /\ interface' = [interface EXCEPT !.parsed = (r.exc = "")]
     /\ call' = Call("assign_outputs", interface.command, result, r.exc, None, << >>)
  /\ UNCHANGED <<dispatcherVars, transportVars, pinpointVars>>

\* get_output_value(name)
GetOutputValue(name) ==
  /\ interface # NoInterface
  /\ call' = Call("get_output_value", name, NoResult, "",
                  get_output_value(Slots.outputs, Entry.outputs, name), << >>)
  /\ UNCHANGED <<telescope_interfaces, interface>>
  /\ UNCHANGED <<dispatcherVars, transportVars, pinpointVars>>

\* names and values the callers pass
CommandNames == Names \cup {"get_weather"}
SlotNames == {"user", "email", "timestamp", "num", "name", "pos"}
InputValues == {Str(<< W("u1") >>)}

NextInterface ==
  \/ \E name \in CommandNames : Instantiate(name)
  \/ \E name \in SlotNames, value \in InputValues : SetInputValue(name, value)
  \/ AssignInputs
  \/ \E result \in Responses : AssignOutputs(result)
  \/ \E name \in SlotNames : GetOutputValue(name)

SpecInterface == InitLibrary /\ [][NextInterface]_vars

\* ========================================================= the transport
\* SSH.command(command): exec_command raises unless the client has an
\* active transport; the except branch evaluates e.message, which no
\* exception object has, so the handler itself raises AttributeError
Response(stream) ==
  IF stream \in {"stdout", "both"} THEN "stdout[0]"
  ELSE IF stream = "stderr" THEN "stderr[0]"
  ELSE "Invalid response."

ssh_command(op, sent, stream) ==
  IF ssh.active
  THEN Ret(op, sent, "", Response(stream), stream)
  ELSE Raises(op, sent, "AttributeError")

\* SSH.connect(): paramiko connect and the probe, True; a failure is
\* handled by the except branch, which evaluates e.message as well
ssh_connect(op, sent) ==
  IF network
  THEN Ret(op, sent, "", "True", "")
  ELSE Raises(op, sent, "AttributeError")

\* Telescope(config): with use_ssh the SSH object is made and connected;
\* an exception of connect leaves no Telescope object
TelescopeInit(use_ssh) ==
  /\ ~telescope.built
  /\ LET r == ssh_connect("Telescope", << >>) IN
     IF ~use_ssh
     THEN /\ telescope' = [built |-> TRUE, use_ssh |-> FALSE]
          /\ ret' = Ret("Telescope", << >>, "", "", "")
          /\ UNCHANGED ssh
     ELSE IF r.exc = ""
     THEN /\ telescope' = [built |-> TRUE, use_ssh |-> TRUE]
          /\ ssh' = [exists |-> TRUE, active |-> TRUE]
          /\ ret' = Ret("Telescope", << >>, "", "", "")
     ELSE /\ ret' = r
          /\ UNCHANGED <<telescope, ssh>>
  /\ UNCHANGED <<network, dispatcherVars, interfaceVars, pinpointVars>>

\* SSH.connect() on the SSH object (IxchelCommand.connect calls it)
SSHConnect ==
  /\ ssh.exists
  /\ ret' = ssh_connect("SSH.connect", << >>)
  /\ ssh' = [ssh EXCEPT !.active = ssh.active \/ network]
  /\ UNCHANGED <<telescope, network, dispatcherVars, interfaceVars, pinpointVars>>

\* SSH.command(command) on the SSH object
SSHCommand(command, stream) ==
  /\ ssh.exists
  /\ ret' = ssh_command("SSH.command", << command >>, stream)
  /\ UNCHANGED <<telescope, ssh, network, dispatcherVars, interfaceVars, pinpointVars>>

\* Telescope.command(command, timeout=...).  With use_ssh: a missing SSH
\* object is dereferenced (self.ssh.connect() on None); otherwise the probe
\* 'echo its alive', whose exception is answered by self.ssh.connect()
\* inside the except branch; then the command inside a try whose except
\* branch returns the empty result.  `lost`: the connection is lost after
\* the probe.  Without use_ssh the command runs in a local subprocess.
TelescopeCommand(command, timeout, stream, lost) ==
  /\ telescope.built
  /\ LET sent == Sent(command, timeout)
         op == "Telescope.command" IN
     IF ~telescope.use_ssh
     THEN /\ ret' = Ret(op, sent, "", "None", stream)
          /\ UNCHANGED <<ssh, network>>
     ELSE IF ~ssh.exists
     THEN /\ ret' = Raises(op, sent, "AttributeError")
          /\ UNCHANGED <<ssh, network>>
     ELSE IF ~ssh.active /\ ~network
     THEN /\ ret' = Raises(op, sent, "AttributeError")
          /\ UNCHANGED <<ssh, network>>
     ELSE IF lost
     THEN /\ ret' = Ret(op, sent, "", "None", "nothing")
          /\ ssh' = [ssh EXCEPT !.active = FALSE]
          /\ network' = FALSE
     ELSE /\ ssh' = [ssh EXCEPT !.active = TRUE]
          /\ ret' = Ret(op, sent, "", Response(stream), stream)
          /\ UNCHANGED network
  /\ UNCHANGED <<telescope, dispatcherVars, interfaceVars, pinpointVars>>

\* the environment: the connection to the server is lost, the server is
\* back
ConnectionLost ==
  /\ network
  /\ network' = FALSE
  /\ ssh' = [ssh EXCEPT !.active = FALSE]
  /\ UNCHANGED <<telescope, ret, dispatcherVars, interfaceVars, pinpointVars>>

ServerBack ==
  /\ ~network
  /\ network' = TRUE
  /\ UNCHANGED <<telescope, ssh, ret, dispatcherVars, interfaceVars, pinpointVars>>

Timeouts == {0, 2}

NextTransport ==
  \/ \E use_ssh \in BOOLEAN : TelescopeInit(use_ssh)
  \/ SSHConnect
  \/ \E command \in Commands, stream \in Streams : SSHCommand(command, stream)
  \/ \E command \in Commands, timeout \in Timeouts, stream \in Streams,
        lost \in BOOLEAN : TelescopeCommand(command, timeout, stream, lost)
  \/ ConnectionLost
  \/ ServerBack

SpecTransport == InitLibrary /\ [][NextTransport]_vars

\* =================================================== the convergence loop
\* _pinpoint(user, ra, dec, time, filter), one step per blocking remote
\* command.  pin.images, pin.solves and pin.offsets count the image, the
\* plate-solve and the offset commands the call has issued.

\* "ra_offset = float(ra_target) - float(ra_image); if ra_offset > 350:
\* ra_offset -= 360.0"
ra_offset_unwrapped(ra_target, ra_image) == ra_target - ra_image

ra_offset(ra_target, ra_image) ==
  IF ra_target - ra_image > Seam
  THEN ra_target - ra_image - FullTurn
  ELSE ra_target - ra_image

\* "dec_offset = float(dec_target) - float(dec_image)"
dec_offset(dec_target, dec_image) == dec_target - dec_image

\* the branch that returns True
ConvergedStrictly(dra, ddec) ==
  abs(dra) < min_ra_offset /\ abs(ddec) < min_dec_offset

Converged(dra, ddec) ==
  abs(dra) <= min_ra_offset /\ abs(ddec) <= min_dec_offset

\* the branch that sends the offset command
CorrectableInRa(dra, ddec) == abs(dra) <= max_ra_offset

Correctable(dra, ddec) ==
  abs(dra) <= max_ra_offset /\ abs(ddec) <= max_dec_offset

\* "if original_filter != filter: result = self._set_filter(filter)": the
\* filter the wheel is left at by every exit of the call
RestoredFilter ==
  IF pin.original_filter # pin.filter THEN pin.filter ELSE wheel

\* an exit of the call: self.hdr = hdr, the filter, the result
ExitHdrOff(p, result) ==
  /\ pin' = [p EXCEPT !.pc = "done", !.result = result]
  /\ hdr' = hdr
  /\ wheel' = RestoredFilter

Exit(p, result) ==
  /\ pin' = [p EXCEPT !.pc = "done", !.result = result]
  /\ hdr' = pin.hdr
  /\ wheel' = RestoredFilter

\* hdr saved and switched off, tracking, dome, pointing, the filter wheel
\* read and set; an exception of a remote command goes to the except
\* branch (restore, raise)
PinpointStart(fn, ra, dec, filter, ok) ==
  /\ pin.pc \in {"idle", "done"}
  /\ handler.said # "pinpointing"
  /\ handler' = Running(fn)
  /\ target' = Unknown
  /\ LET p == [NotRunning EXCEPT !.hdr = hdr, !.filter = filter,
                                 !.original_filter = filter,
                                 !.ra_target = ra, !.dec_target = dec] IN
     IF ok
     THEN /\ pin' = [p EXCEPT !.pc = "loop", !.original_filter = wheel,
                              !.telescope_interface =
                                Local("point", <<ra, dec>>)]
          /\ hdr' = FALSE
          /\ wheel' = filter
     ELSE /\ pin' = [p EXCEPT !.pc = "done", !.result = "raised"]
          /\ UNCHANGED <<hdr, wheel>>
  /\ UNCHANGED <<dispatcherVars, interfaceVars, transportVars>>

\* "while iteration < max_tries": the image of this iteration (_get_image
\* sets the filter and exposes); a failed image returns False
PinpointCapture(success) ==
  /\ pin.pc = "loop"
  /\ pin.iteration < max_tries
  /\ LET p == [pin EXCEPT !.images = @ + 1] IN
     IF success
     THEN /\ pin' = [p EXCEPT !.pc = "solve"]
          /\ wheel' = pin.filter
          /\ UNCHANGED hdr
     ELSE Exit(p, "False")
  /\ UNCHANGED <<target, handler, dispatcherVars, interfaceVars, transportVars>>

\* the loop condition fails: "Pinpoint exceeded maximum number of iterations"
PinpointExhausted ==
  /\ pin.pc = "loop"
  /\ pin.iteration >= max_tries
  /\ Exit(pin, "False")
  /\ UNCHANGED <<target, handler, dispatcherVars, interfaceVars, transportVars>>

\* the plate solve of the image, the two offsets and the three branches;
\* without a solution the outputs read None and float(None) raises
PinpointSolve(ra_image, dec_image, ok) ==
  /\ pin.pc = "solve"
  /\ LET dra == ra_offset(pin.ra_target, ra_image)
         ddec == dec_offset(pin.dec_target, dec_image)
         p == [pin EXCEPT !.solves = @ + 1,
                          !.telescope_interface =
                            Local("pinpoint", <<pin.ra_target,
                                                pin.dec_target>>)]
         q == [p EXCEPT !.ra_image = ra_image, !.dec_image = dec_image,
                        !.ra_offset = dra, !.dec_offset = ddec] IN
     IF ~ok THEN Exit(p, "raised")
     ELSE IF Converged(dra, ddec) THEN Exit(q, "True")
     ELSE IF Correctable(dra, ddec)
     THEN /\ pin' = [q EXCEPT !.pc = "offset"]
          /\ UNCHANGED <<hdr, wheel>>
     ELSE Exit(q, "False")
  /\ UNCHANGED <<target, handler, dispatcherVars, interfaceVars, transportVars>>

\* "telescope_interface.set_input_value("dRA", ra_offset)",
\* "set_input_value("dDEC", dec_offset)": the inputs <<dRA, dDEC>>
OffsetInputsSwapped(dra, ddec) == <<ddec, dra>>

OffsetInputs(dra, ddec) == <<dra, ddec>>

\* "iteration += 1"
SameIteration(iteration) == iteration

NextIteration(iteration) == iteration + 1

\* the offset command, then "iteration += 1"
PinpointOffset(ok) ==
  /\ pin.pc = "offset"
  /\ LET p == [pin EXCEPT !.offsets = @ + 1,
                          !.telescope_interface =
                            Local("offset", OffsetInputs(pin.ra_offset,
                                                         pin.dec_offset))] IN
     IF ok
     THEN /\ pin' = [p EXCEPT !.pc = "loop",
                              !.iteration = NextIteration(@)]
          /\ UNCHANGED <<hdr, wheel>>
     ELSE Exit(p, "raised")
  /\ UNCHANGED <<target, handler, dispatcherVars, interfaceVars, transportVars>>

\* \abort from the event-loop thread while the call runs: setDoAbort(True)
PinpointAbort ==
  /\ pin.pc \in {"loop", "solve", "offset"}
  /\ ~doAbort
  /\ doAbort' = TRUE
  /\ UNCHANGED <<threads, workers, nspawned, share, preview, lockOwner,
                 getLockUser, session, ev, reply>>
  /\ UNCHANGED <<interfaceVars, transportVars, pinpointVars>>

\* \hdr on|off between two calls
SetHdr(on) ==
  /\ pin.pc \in {"idle", "done"}
  /\ handler.said # "pinpointing"
  /\ hdr' = on
  /\ UNCHANGED <<pin, wheel, target, handler,
                 dispatcherVars, interfaceVars, transportVars>>

\* pinpoint, lines 523-529: an object id that \find has not listed is
\* answered before set_target() and _pinpoint
PinpointUnknownId ==
  /\ pin.pc \in {"idle", "done"}
  /\ handler.said # "pinpointing"
  /\ handler' = Handler("pinpoint", "does not recognize the object id")
  /\ UNCHANGED <<pin, hdr, wheel, target,
                 dispatcherVars, interfaceVars, transportVars>>

\* what the handler sends once _pinpoint has returned or raised
Said(fn, result) ==
  IF result = "raised" THEN "Error. Command failed."
  ELSE IF result = "True" \/ fn = "pinpoint_ra_dec"
  THEN "Telescope successfully pinpointed"
  ELSE "Telescope failed to pinpoint"

\* pinpoint, lines 537-548, pinpoint_ra_dec, lines 569-583: the message
\* and, "if success", set_target(name)
PinpointReturn ==
  /\ pin.pc = "done"
  /\ handler.said = "pinpointing"
  /\ handler' = Handler(handler.fn, Said(handler.fn, pin.result))
  /\ target' = IF pin.result = "True" THEN TargetOf(handler.fn) ELSE target
  /\ UNCHANGED <<pin, hdr, wheel, dispatcherVars, interfaceVars, transportVars>>

NextPinpoint ==
  \/ \E skyObject \in skyObjects, filter \in WheelFilters, ok \in BOOLEAN :
        PinpointStart("pinpoint", skyObject.ra, skyObject.dec, filter, ok)
  \/ \E ra \in RaTargets, dec \in DecTargets, filter \in WheelFilters,
        ok \in BOOLEAN :
        PinpointStart("pinpoint_ra_dec", ra, dec, filter, ok)
  \/ PinpointUnknownId
  \/ PinpointReturn
  \/ \E success \in BOOLEAN : PinpointCapture(success)
  \/ PinpointExhausted
  \/ \E ra_image \in RaImages, dec_image \in DecImages, ok \in BOOLEAN :
        PinpointSolve(ra_image, dec_image, ok)
  \/ \E ok \in BOOLEAN : PinpointOffset(ok)
  \/ PinpointAbort
  \/ \E on \in BOOLEAN : SetHdr(on)

SpecPinpoint == InitLibrary /\ [][NextPinpoint]_vars

\* the steps of a running call; each one is a blocking remote command of
\* the worker thread that runs the handler
PinpointRuns ==
  \/ \E success \in BOOLEAN : PinpointCapture(success)
  \/ PinpointExhausted
  \/ \E ra_image \in RaImages, dec_image \in DecImages, ok \in BOOLEAN :
        PinpointSolve(ra_image, dec_image, ok)
  \/ \E ok \in BOOLEAN : PinpointOffset(ok)

\* every remote command of the call returns and the worker thread goes on
SpecPinpointLive == SpecPinpoint /\ WF_vars(PinpointRuns)

\* ------------------------------------------------------------- session
\* The session settings of IxchelCommand (hdr, share, target, preview), the
\* handlers that write them and the lock handlers that reset them, one
\* handler at a time as single-flight admission runs them.
SessionTexts == {<<"\\lock">>, <<"\\unlock">>, <<"\\share", "on">>, <<"\\share", "off">>}

\* the worker thread of the one handler that runs
SessionThread == 1

\* parse, lines 170-182: the thread of an admitted lock or share request
HandlerRuns(text, user) ==
  /\ ~is_alive(SessionThread)
  /\ workers' = [workers EXCEPT ![SessionThread] =
                   NewWorker(commands[FirstMatch(text)].function, text, user)]
  /\ UNCHANGED <<threads, nspawned, doAbort, share, lockOwner, getLockUser,
                 session, ev, reply>>
  /\ UNCHANGED libraryVars

\* set_preview (lines 969-978)
SetPreview(on) ==
  /\ ~is_alive(SessionThread)
  /\ preview' = on
  /\ UNCHANGED <<threads, workers, nspawned, doAbort, share, lockOwner,
                 getLockUser, session, ev, reply>>
  /\ UNCHANGED <<interfaceVars, transportVars, pinpointVars>>

\* set_target(name) (lines 120-123), as the pinpoint handlers call it on
\* success (lines 542, 577)
SetTarget(fn) ==
  /\ ~is_alive(SessionThread)
  /\ target' = TargetOf(fn)
  /\ UNCHANGED <<pin, hdr, wheel, handler,
                 dispatcherVars, interfaceVars, transportVars>>

NextSession ==
  \/ \E text \in SessionTexts, user \in Users : HandlerRuns(text, user)
  \/ WorkerShare(SessionThread)
  \/ WorkerRemoteBegin(SessionThread)
  \/ \E ok \in BOOLEAN : WorkerRemoteEnd(SessionThread, ok)
  \/ \E on \in BOOLEAN : ~is_alive(SessionThread) /\ SetHdr(on)
  \/ \E on \in BOOLEAN : SetPreview(on)
  \/ \E fn \in PinpointHandlers : SetTarget(fn)

SpecSession == Init /\ [][NextSession]_vars

\* ------------------------------------------------------------ messages
\* The message callback of the event loop (src/ixchel.py, parse_message and
\* process), in front of parse.  A payload is a dict that may lack any of
\* its keys.
bot_name == "ixchel"
channel_id == "C0"

\* raw texts: tokens, blanks among them
Blank == " "
RawTexts == {
  <<"\\lock">>,
  <<Blank, "\\track", "on", Blank>>,
  <<"\\nosuch">>,
  <<"hello", "\\lock">>,
  <<Blank>>
}

\* the first tokens that are a backslash followed by word characters
BackslashWords == {commands[i].regex.word : i \in DOMAIN commands} \cup {"\\nosuch"}

\* the optional keys of a payload
OptionalKey(key, values) == {<<>>} \cup {key :> v : v \in values}

Messages ==
  {("user" :> user) @@ username @@ channel @@ text :
     user \in Users,
     username \in OptionalKey("username", {bot_name, "u1"}),
     channel \in OptionalKey("channel", {channel_id, "D1"}),
     text \in OptionalKey("text", RawTexts)}

\* str.strip(): the blanks at both ends are dropped
RECURSIVE lstrip(_)
lstrip(text) ==
  IF text # <<>> /\ Head(text) = Blank THEN lstrip(Tail(text)) ELSE text

RECURSIVE rstrip(_)
rstrip(text) ==
  IF text # <<>> /\ text[Len(text)] = Blank
  THEN rstrip(SubSeq(text, 1, Len(text) - 1))
  ELSE text

stripNot(text) == text

strip(text) == rstrip(lstrip(text))

\* line 73: 'username' in message and message['username'] == self.bot_name
FromBotNever(message) == FALSE

FromBot(message) ==
  "username" \in DOMAIN message /\ message["username"] = bot_name

\* line 91: re.search(r'^\\\w+', text)
IsCommand(text) == text # <<>> /\ Head(text) \in BackslashWords

\* parse_message (lines 65-84) and process (lines 86-94), up to the call of
\* parse, whose first step is ParseStart
ParseMessage(message) ==
  IF FromBot(message) \/ "channel" \notin DOMAIN message
  THEN UNCHANGED vars
  ELSE IF message["channel"] # channel_id
  THEN /\ ev.pc = "idle"
       /\ reply' = Msg("redirect", <<message["channel"]>>)
       /\ UNCHANGED <<threads, workers, nspawned, doAbort, share, lockOwner,
                      getLockUser, session, ev>>
       /\ UNCHANGED libraryVars
  ELSE IF "text" \notin DOMAIN message
  THEN UNCHANGED vars
  ELSE IF IsCommand(strip(message["text"]))
  THEN ParseStart(strip(message["text"]), message["user"])
  ELSE UNCHANGED vars

NextMessage ==
  \/ \E message \in Messages : ParseMessage(message)
  \/ \E ok \in BOOLEAN : ParseLockCheck(ok)
  \/ ParsePrune
  \/ ParseDecide
  \/ \E t \in Tids : WorkerRemoteBegin(t)
  \/ \E t \in Tids, ok \in BOOLEAN : WorkerRemoteEnd(t, ok)

SpecMessage == Init /\ [][NextMessage]_vars

\* ================================================================ claims
\* steps of the event-loop thread inside parse
Fn == commands[ev.cmd].function
PruneStep == ev.pc = "prune" /\ ev'.pc = "decide"
DecideStep == ev.pc = "decide" /\ ev'.pc = "idle"
LockCheckStep == ev.pc = "lockquery" /\ ev'.pc # "lockquery"

\* C1: at every instant at most one worker thread spawned by the
\* dispatcher is alive.
C1_SingleFlight == Cardinality(Alive) <= 1

\* a second worker runs alone after the first one has finished
C1_Witness == nspawned >= 2 /\ Cardinality(Alive) = 1

\* C2: a non-abort command dispatched while an admitted worker is alive is
\* answered with the "please wait" message naming the text of the in-flight
\* command; no thread is spawned, the registry and the abort flag stay as
\* they are.
C2_BusyRejected ==
  [][ /\ (PruneStep /\ ~IsAbort(Fn) /\ Alive # {}) => threads' = threads
      /\ (DecideStep /\ ~IsAbort(Fn) /\ Alive # {}) =>
           /\ \E t \in Alive : reply' = Msg("wait", workers[t].command)
           /\ nspawned' = nspawned
           /\ workers' = workers
           /\ threads' = threads
           /\ doAbort' = doAbort ]_vars

C2_Witness ==
  /\ ev.pc = "idle"
  /\ reply.kind = "wait"
  /\ \E t \in Alive : reply.arg = workers[t].command /\ Len(threads) = 1

\* C3: an abort request that finds the pruned registry empty replies
\* "No commands to abort.", spawns nothing and leaves the abort flag
\* cleared, whatever the flag was before.
C3_NothingToAbort ==
  [][ (DecideStep /\ Fn = "abort" /\ threads = <<>>) =>
        /\ reply' = Msg("noabort", <<>>)
        /\ doAbort' = FALSE
        /\ nspawned' = nspawned
        /\ workers' = workers
        /\ threads' = <<>> ]_vars

\* the abort request about to be answered finds no worker and a set flag
C3_Witness == ev.pc = "decide" /\ Fn = "abort" /\ threads = <<>> /\ doAbort

\* C4: an abort request that finds a worker in the pruned registry sets the
\* abort flag, names the in-flight command in its reply, spawns no thread
\* and leaves the registry as it is; the abort handler never runs.
C4_AbortSignals ==
  [][ /\ (DecideStep /\ Fn = "abort" /\ threads # <<>>) =>
           /\ doAbort' = TRUE
           /\ reply' = Msg("aborting", workers[threads[1].thread].command)
           /\ nspawned' = nspawned
           /\ workers' = workers
           /\ threads' = threads
      /\ \A t \in Tids : workers'[t].fn # "abort" ]_vars

C4_Witness ==
  /\ ev.pc = "idle"
  /\ reply.kind = "aborting"
  /\ doAbort
  /\ \E t \in Alive : reply.arg = workers[t].command

\* C5: a worker whose handler has returned or failed is removed from the
\* registry by the prune of the next request, and a non-abort command that
\* reaches the admission with the registry pruned empty is admitted.
C5_SlotFreed ==
  [][ /\ PruneStep =>
           /\ \A i \in DOMAIN threads' : is_alive(threads'[i].thread)
           /\ (Alive = {} => threads' = <<>>)
      /\ (DecideStep /\ ~IsAbort(Fn) /\ threads = <<>>) =>
           /\ nspawned' = nspawned + 1
           /\ threads' = <<CommandThread(nspawned', ev.text, ev.user)>>
           /\ workers'[nspawned'].st = "alive"
           /\ workers'[nspawned'].fn = Fn
           /\ workers'[nspawned'].command = ev.text ]_vars

\* the prune has just removed a finished worker and a non-abort command is
\* about to be admitted
C5_Witness ==
  /\ ev.pc = "decide"
  /\ ~IsAbort(Fn)
  /\ threads = <<>>
  /\ \E t \in Tids : workers[t].st = "gone"

IsFirstMatch(i, text) ==
  /\ i \in DOMAIN commands
  /\ search(commands[i].regex, text)
  /\ \A j \in 1..(i - 1) : ~search(commands[j].regex, text)

C7_FirstMatchWins ==
  [][ /\ (ev.pc = "idle" /\ ev'.pc \in {"lockquery", "prune"}) =>
           IsFirstMatch(ev'.cmd, ev'.text)
      /\ \A t \in Tids : (~is_alive(t) /\ workers'[t].st = "alive") =>
           /\ IsFirstMatch(ev.cmd, workers'[t].command)
           /\ workers'[t].fn = commands[ev.cmd].function
      /\ (ev.pc = "idle" /\ ev'.pc = "idle" /\ reply' # reply) =>
           /\ reply'.kind = "unrecognized"
           /\ \A i \in DOMAIN commands : ~search(commands[i].regex, reply'.arg)
           /\ UNCHANGED <<threads, workers, nspawned, doAbort, share,
                          lockOwner, getLockUser, session, ev>> ]_vars

\* a text that two entries match runs the handler of the earlier entry
C7_Witness ==
  \E t \in Alive :
    /\ Cardinality(Matching(workers[t].command)) >= 2
    /\ workers[t].fn = "pinpoint"

C7_WitnessUnrecognized == reply.kind = "unrecognized" /\ ev.pc = "idle"

\* C8: every exception raised inside a handler on its worker thread is
\* caught and reported to the channel as a "command failed" message; no
\* handler ends on an exception that nobody reported.
C8_HandlerErrorsReported == \A t \in Tids : workers[t].out # "escaped"

\* C9: whenever no worker thread is alive and no request is being
\* processed, the abort flag is cleared.
C9_FlagClearedWhenIdle == (Alive = {} /\ ev.pc = "idle") => ~doAbort

\* C10: at no instant are two remote commands in progress on the one
\* shared session.
C10_OneRemoteCommand == Cardinality(session) <= 1

\* ------------------------------------------- claims on the command interface
\* no line of the response matches the pattern of the output slot
NoLineMatches(slot, result) ==
  \A i \in 1..Len(result.lines) : re_search(slot.regex, result.lines[i]) = None
MissingSlots(name, result, optional) ==
  {i \in 1..Len(catalog[name].outputs) :
     /\ catalog[name].outputs[i].optional = optional
     /\ NoLineMatches(catalog[name].outputs[i], result)}
\* the output values of the slots are what they were before the step
SlotsKept(name, slots) ==
  \A i \in slots :
     telescope_interfaces'[name].outputs[catalog[name].outputs[i].name]
       = telescope_interfaces[name].outputs[catalog[name].outputs[i].name]

\* C11: assign_outputs on a response in which no line matches the pattern
\* of a required output slot raises the validation error (ValueError) to
\* the caller, and the slot is not given a value.
C11_MissingRequiredRaises ==
  [][(call'.op = "assign_outputs"
        /\ MissingSlots(call'.name, call'.result, FALSE) # {})
       => /\ call'.exc = "ValueError"
          /\ SlotsKept(call'.name, MissingSlots(call'.name, call'.result, FALSE))]_vars

\* C12: assign_outputs on a response that misses no required output (only
\* optional ones, an empty response included) returns without raising and
\* leaves every missing optional slot as it was, at its default.
C12_OptionalMissingSucceeds ==
  [][(call'.op = "assign_outputs"
        /\ MissingSlots(call'.name, call'.result, FALSE) = {})
       => /\ call'.exc = ""
          /\ SlotsKept(call'.name, MissingSlots(call'.name, call'.result, TRUE))]_vars

\* C13: after assign_outputs has returned without error, get_output_value
\* of an output slot gives a value of the declared type, or the default
\* (None) if the slot is optional: a required slot never reads as None.
C13_TypedOrDefault ==
  (call.op = "get_output_value" /\ interface.parsed
     /\ call.name \in Keys(Slots.outputs))
    => LET slot == Slots.outputs[SlotOf(Slots.outputs, call.name)] IN
       \/ call.value.t = slot.type
       \/ slot.optional /\ call.value = None

\* C14: assign_inputs fails when an input slot without a default that the
\* template uses is not bound (its value is None); it produces no command
\* string then.
UnboundInputs(name) ==
  {i \in 1..Len(catalog[name].inputs) :
     /\ catalog[name].inputs[i].default = None
     /\ telescope_interfaces[name].inputs[catalog[name].inputs[i].name] = None
     /\ \E j \in 1..Len(catalog[name].command) :
           catalog[name].command[j] = Ph(catalog[name].inputs[i].name)}
C14_UnboundInputFails ==
  (call.op = "assign_inputs" /\ UnboundInputs(call.name) # {})
    => call.exc # "" /\ call.text = << >>

\* C15: the catalog telescope_interfaces is never changed after startup
\* (by constructing a TelescopeInterface, set_input_value, assign_outputs).
C15_CatalogImmutable == telescope_interfaces = Startup

\* ---------------------------------------------------- claims on the transport
\* C16: no call of Telescope(config), Telescope.command, SSH.command or
\* SSH.connect raises; each returns a result in every transport state.
C16_TransportNeverRaises == ret.exc = ""

\* C17: SSH.connect while connected leaves the session connected and
\* returns True as the first call did; a failed connect leaves the
\* session disconnected and does not raise.
ConnectStep == ret'.op = "SSH.connect" /\ network' = network
C17_ConnectIdempotent ==
  [][ConnectStep
       => /\ ret'.exc = ""
          /\ (ssh.active => (ssh' = ssh /\ ret'.value = "True"))
          /\ (~network => ~ssh'.active)]_vars

\* ------------------------------------------- claims on the convergence loop
\* C18: at the start of every iteration of _pinpoint the abort flag is
\* checked: when it is set the call takes no further image and sends no
\* further offset, restores hdr, clears the flag and returns failure.
C18_AbortCheckedEachIteration ==
  [][(doAbort /\ pin.pc = "loop" /\ pin.iteration < max_tries /\ pin' # pin)
       => /\ pin'.pc = "done" /\ pin'.result = "False"
          /\ pin'.images = pin.images /\ pin'.offsets = pin.offsets
          /\ hdr' = pin.hdr
          /\ ~doAbort']_vars

\* a plate solve that gave a field centre: the offsets of this iteration
SolveStep ==
  pin.pc = "solve" /\ pin'.solves = pin.solves + 1 /\ pin'.result # "raised"

\* C19: the RA offset of an iteration is target - solved, less a full turn
\* exactly when that is greater than 350 degrees; the Dec offset is
\* target - solved; target RA 359.5 and solved RA 0.2 give -0.7.
C19_Offsets ==
  [][SolveStep
       => LET d == pin'.ra_target - pin'.ra_image IN
          /\ pin'.ra_offset = IF d > Seam THEN d - FullTurn ELSE d
          /\ pin'.dec_offset = pin'.dec_target - pin'.dec_image
          /\ ((pin'.ra_target = 35950 /\ pin'.ra_image = 20)
                => pin'.ra_offset = -70)]_vars
C19_Witness ==
  /\ pin.pc = "offset"
  /\ pin.ra_target = 35950 /\ pin.ra_image = 20 /\ pin.ra_offset = -70

\* C20: an iteration whose offsets are both within the minimum returns
\* True in that iteration: no offset command is sent in it and no further
\* image is taken by the call.
C20_ConvergedReturns ==
  [][((SolveStep /\ abs(pin'.ra_offset) <= min_ra_offset
                 /\ abs(pin'.dec_offset) <= min_dec_offset)
        => (pin'.pc = "done" /\ pin'.result = "True"
            /\ pin'.images = pin.images /\ pin'.offsets = pin.offsets))
     /\ ((pin.pc = "done" /\ pin' # pin)
        => (pin'.images = 0 /\ pin'.offsets = 0))]_vars
C20_Witness ==
  /\ pin.pc = "done" /\ pin.result = "True"
  /\ pin.iteration = 1 /\ pin.images = 2 /\ pin.offsets = 1
  /\ abs(pin.ra_offset) = min_ra_offset

\* C21: an iteration whose offsets are outside the minimum and within the
\* maximum goes to the offset command and to nothing else; the loop sends
\* one offset command per such iteration, with dRA = ra_offset and
\* dDEC = dec_offset of that iteration, takes no image meanwhile and, once
\* the command has returned, counts the iteration and is back at the loop
\* head, where the next step of the call is the image of a further
\* iteration while iteration < max_tries.
C21_CorrectiveOffset ==
  [][/\ ((SolveStep
           /\ ~(abs(pin'.ra_offset) <= min_ra_offset
                /\ abs(pin'.dec_offset) <= min_dec_offset)
           /\ abs(pin'.ra_offset) <= max_ra_offset
           /\ abs(pin'.dec_offset) <= max_dec_offset)
          => (pin'.pc = "offset" /\ pin'.offsets = pin.offsets
              /\ pin'.images = pin.images /\ pin'.iteration = pin.iteration))
     /\ ((pin.pc = "offset" /\ pin' # pin)
          => (/\ pin'.offsets = pin.offsets + 1
              /\ pin'.telescope_interface =
                   Local("offset", <<pin.ra_offset, pin.dec_offset>>)
              /\ pin'.images = pin.images
              /\ (pin'.result # "raised"
                    => (pin'.pc = "loop"
                        /\ pin'.iteration = pin.iteration + 1))))
     /\ (pin'.pc = "loop" => pin'.offsets = pin'.iteration)
     /\ ((pin.pc = "loop" /\ pin.iteration < max_tries /\ pin' # pin)
          => (pin'.images = pin.images + 1
              /\ pin'.offsets = pin.offsets))]_vars

\* the image of the second iteration has been taken after one offset
\* command that carried the offsets of the first
C21_Witness ==
  /\ pin.pc = "solve" /\ pin.iteration = 1
  /\ pin.images = 2 /\ pin.offsets = 1
  /\ pin.ra_offset # pin.dec_offset
  /\ pin.telescope_interface =
       Local("offset", <<pin.ra_offset, pin.dec_offset>>)

\* C22: an iteration with an offset beyond the maximum in RA or in Dec
\* returns False in that iteration: the call sends no offset command in or
\* after it, takes no further image and does not count the iteration.
C22_TooLargeReturns ==
  [][/\ ((SolveStep /\ (abs(pin'.ra_offset) > max_ra_offset
                         \/ abs(pin'.dec_offset) > max_dec_offset))
          => (/\ pin'.pc = "done" /\ pin'.result = "False"
              /\ pin'.offsets = pin.offsets
              /\ pin'.images = pin.images
              /\ pin'.iteration = pin.iteration))
     /\ ((pin.pc = "done" /\ pin' # pin)
          => (pin'.pc \in {"loop", "done"} /\ pin'.offsets = 0
              /\ pin'.images = 0 /\ pin'.iteration = 0))]_vars

\* the second iteration found the Dec offset beyond the maximum
C22_Witness ==
  /\ pin.pc = "done" /\ pin.result = "False"
  /\ abs(pin.ra_offset) <= max_ra_offset
  /\ abs(pin.dec_offset) > max_dec_offset
  /\ pin.iteration = 1 /\ pin.solves = 2 /\ pin.offsets = 1

\* C23: when every remote command returns, a running call ends; it takes
\* at most max_tries images and sends at most max_tries offset commands,
\* and a loop condition that fails after max_tries iterations makes the
\* call return False, not raise.
C23_Terminates ==
  /\ [](pin.images <= max_tries /\ pin.offsets <= max_tries)
  /\ [][(pin.pc = "loop" /\ pin.iteration >= max_tries /\ pin' # pin)
         => (pin'.pc = "done" /\ pin'.result = "False")]_vars
  /\ (pin.pc \in {"loop", "solve", "offset"} ~> pin.pc = "done")

\* the call has run out of iterations
C23_Witness ==
  /\ pin.pc = "done" /\ pin.result = "False"
  /\ pin.iteration = max_tries
  /\ pin.images = max_tries /\ pin.offsets = max_tries

\* a step that begins a call, and a step that ends a running one
CallStep == pin.pc \in {"idle", "done"} /\ pin' # pin
ExitStep == pin.pc \in {"loop", "solve", "offset"} /\ pin'.pc = "done"

\* C24: the call saves the hdr setting and switches it off, so that every
\* image of the loop is taken with hdr off, and every way the call ends
\* (True, False after a failed image, offsets too large or max_tries
\* iterations, an exception) leaves hdr at the value it had before the
\* call.
C24_HdrRestored ==
  [][/\ (CallStep => (/\ pin'.hdr = hdr
                       /\ (pin'.pc = "loop" => ~hdr')
                       /\ (pin'.pc = "done" => hdr' = hdr)))
     /\ ((pin.pc = "loop" /\ pin'.images = pin.images + 1) => ~hdr)
     /\ (pin.pc \in {"loop", "solve", "offset"} => pin'.hdr = pin.hdr)
     /\ (ExitStep => hdr' = pin.hdr)]_vars

\* a call made with hdr on has taken an image and returned
C24_Witness ==
  /\ pin.pc = "done" /\ pin.result = "True" /\ pin.images = 2
  /\ pin.hdr /\ hdr

\* C25: every way a running call ends leaves the filter wheel at the
\* filter recorded before the loop.
C25_FilterRestored ==
  [][ExitStep => wheel' = pin.original_filter]_vars

C27_AtomicAdmission ==
  ev.pc = "decide" => \A i \in DOMAIN threads : is_alive(threads[i].thread)

\* C28: the image command of an iteration does not end the call, whether
\* the image succeeds or fails: the loop goes on with this iteration or
\* the next one.
C28_CaptureFailureContinues ==
  [][(pin.pc = "loop" /\ pin'.images = pin.images + 1)
       => pin'.pc \in {"loop", "solve"}]_vars

\* C29: SSH.command returns a result and never raises; the response of the
\* result is the first line of stdout when stdout has lines, whether or
\* not stderr has lines too, and the first line of stderr when only stderr
\* has lines.
C29_FirstNonEmptyStream ==
  ret.op = "SSH.command" =>
    /\ ret.exc = ""
    /\ (ret.stream \in {"stdout", "both"} => ret.value = "stdout[0]")
    /\ (ret.stream = "stderr" => ret.value = "stderr[0]")

\* a call of TelescopeInterface(name)
InstantiateStep ==
  /\ call'.op = "__init__"
  /\ <<call, interface, telescope_interfaces>>'
       # <<call, interface, telescope_interfaces>>

\* C30: TelescopeInterface(name) with a name that is not a key of the
\* catalog raises the lookup error ('Command (name) not found.') and makes
\* no interface object; with a key of the catalog it returns, and the
\* object is bound to the entry of that name.
C30_InstantiateByName ==
  [][InstantiateStep =>
       IF call'.name \in DOMAIN catalog
       THEN /\ call'.exc = ""
            /\ interface'.command = call'.name
       ELSE /\ call'.exc = "ValueError"
            /\ interface' = interface
            /\ telescope_interfaces' = telescope_interfaces]_vars

\* get_weather is not in the catalog: the call failed and the interface
\* made before it is still the one of get_lock
C30_Witness ==
  /\ call.op = "__init__" /\ call.name = "get_weather"
  /\ call.exc = "ValueError"
  /\ interface.command = "get_lock"

\* C31: a frame sequence is admitted with the abort flag clear, so that
\* only an abort request made after its admission can make the check at
\* the start of its first frame read the flag set.
C31_NoStaleAbort ==
  [][\A t \in Tids :
       (workers[t].st = "none" /\ workers'[t].st = "alive"
          /\ workers'[t].fn \in Frames) => ~doAbort']_vars

C33_ReportsOutcome ==
  [][(handler.said = "pinpointing" /\ handler'.said # "pinpointing") =>
       /\ (handler'.said = "Telescope successfully pinpointed"
             <=> pin.result = "True")
       /\ (target' # Unknown <=> pin.result = "True")
       /\ (pin.result = "False"
             => handler'.said = "Telescope failed to pinpoint")]_vars

\* C34: the 'user' value the dispatcher reads from the get_lock interface
\* of its lock check is the one its own query parsed: the holder of the
\* lock named in its response, or None after a response without user=;
\* the get_lock interface of a worker does not change it.
C34_InterfacePrivate ==
  [][LockCheckStep =>
       (getLockUser' = NoUser \/ getLockUser' = lockOwner)]_vars

\* C35: lock sharing never stays enabled after the lock has been released
\* or cleared: a step that takes the lock from its holder (unlock, clear,
\* closing the observatory) leaves sharing off, so that afterwards no
\* lock-required command is admitted on an instrument nobody holds.
\* Refuted by clear_lock, which clears the lock and never calls resetSession.
C35_SharingEndsWithLock ==
  [][(lockOwner # NoUser /\ lockOwner' = NoUser) => ~share']_vars


LockCommandEnds(t) ==
  /\ workers[t].pc = "remote" /\ workers[t].op \in {"set_lock", "unlock"}
  /\ workers'[t].pc = "done"

SessionDefaults == ~hdr /\ ~share /\ target = Unknown /\ preview

UnderBotName(message) ==
  "username" \in DOMAIN message /\ message["username"] = bot_name

InChannel(message) ==
  "channel" \in DOMAIN message /\ message["channel"] = channel_id

\* the raw texts that, stripped, start with a backslash and a word character
CommandTexts ==
  {<<"\\lock">>, <<Blank, "\\track", "on", Blank>>, <<"\\nosuch">>}

HasCommandText(message) ==
  "text" \in DOMAIN message /\ message["text"] \in CommandTexts

\* parse has been entered: it holds the request, or it has answered that no
\* entry matches
Dispatched ==
  \/ ev'.pc \in {"lockquery", "prune"}
  \/ reply'.kind = "unrecognized"

NothingDispatched ==
  /\ ev' = ev
  /\ UNCHANGED <<threads, workers, nspawned, doAbort, share, lockOwner>>

\* C38: only a message of the configured channel, not sent under the bot's
\* name, whose stripped text starts with a backslash and a word character
\* reaches parse.  A message under the bot's name changes nothing; a
\* message of another channel gets the redirect reply in that channel and
\* is not dispatched; a text that is not a command is not dispatched.
C38_OnlyCommandsReachParse ==
  [][(ev.pc = "idle" /\ (reply' # reply \/ ev' # ev)) =>
     \A message \in Messages : ParseMessage(message) =>
       /\ Dispatched =>
             /\ ~UnderBotName(message) /\ InChannel(message)
             /\ HasCommandText(message)
       /\ UnderBotName(message) => UNCHANGED vars
       /\ (~UnderBotName(message) /\ "channel" \in DOMAIN message
             /\ ~InChannel(message)) =>
             /\ reply' = Msg("redirect", <<message["channel"]>>)
             /\ NothingDispatched
       /\ ~HasCommandText(message) => NothingDispatched]_vars

\* parse holds a request whose raw text had blanks around the command
C38_Witness ==
  /\ ev.pc = "lockquery"
  /\ ev.text = <<"\\track", "on">>
  /\ reply = NoReply


\* ------------------------------------------ claims on the RA wraparound
\* C39: the wraparound correction handles the seam in both directions: a
\* target RA and a solved RA in [0, 360) that are less than 10 degrees
\* apart across the seam give a corrected RA offset below 10 degrees in
\* magnitude (target 0.2 and solved 359.5 give +0.7).
\* Refuted: only an offset above +350 is corrected (lines 438-439).
C39_SeamBothWays ==
  [][SolveStep
       => LET d == pin'.ra_target - pin'.ra_image IN
          \* 10 degrees are 1000 hundredths of a degree
          /\ (abs(d) > FullTurn - 1000 => abs(pin'.ra_offset) < 1000)
          /\ ((pin'.ra_target = 20 /\ pin'.ra_image = 35950)
                => pin'.ra_offset = 70)]_vars

====
